---------------------------- MODULE Spec2Model ----------------------------
(* The disk_manager backend (src/backed/src/main.rs): an HTTP service over *)
(* a storage directory.  A string is a sequence of one-character strings,  *)
(* a PathBuf is the string it holds, and the filesystem is a function from *)
(* absolute locations (sequences of names) to nodes.  The filesystem       *)
(* primitives follow Linux and the Rust standard library.                  *)
EXTENDS Integers, Sequences, FiniteSets

VARIABLES fs, prev, req, resp, stored, deleted, subject, result, inflight

vars == <<fs, prev, req, resp, stored, deleted, subject, result, inflight>>

(* ------------------------------ bounds -------------------------------- *)

\* strings given to resolve_path in SpecResolve have at most this length
MaxLen == 4
\* an upload body has at most this many parts in Spec
MaxFields == 1
\* an upload body has at most this many parts in SpecUpload
MaxParts == 2
\* concurrent create_folder requests in SpecConc
MaxClients == 2

(* ------------------------------ strings ------------------------------- *)

Alphabet == {"a", ".", "/"}

RECURSIVE Strings(_)
Strings(n) ==
    IF n = 0 THEN {<<>>}
    ELSE LET shorter == Strings(n - 1)
         IN  shorter \cup {Append(s, c) : s \in {t \in shorter : Len(t) = n - 1}, c \in Alphabet}

\* str::contains
Contains(s, pat) ==
    \E i \in 1..(Len(s) - Len(pat) + 1) : SubSeq(s, i, i + Len(pat) - 1) = pat

\* str::trim_start_matches(c)
RECURSIVE trim_start_matches(_, _)
trim_start_matches(s, c) ==
    IF s # <<>> /\ Head(s) = c THEN trim_start_matches(Tail(s), c) ELSE s

\* the segments of a path string between separators, empty ones dropped
RECURSIVE Split(_, _, _)
Split(s, cur, acc) ==
    IF s = <<>> THEN (IF cur = <<>> THEN acc ELSE Append(acc, cur))
    ELSE IF Head(s) = "/"
         THEN Split(Tail(s), <<>>, IF cur = <<>> THEN acc ELSE Append(acc, cur))
         ELSE Split(Tail(s), Append(cur, Head(s)), acc)

Segments(s) == Split(s, <<>>, <<>>)

IsAbsolute(s) == s # <<>> /\ Head(s) = "/"

EndsWithSlash(s) == s # <<>> /\ s[Len(s)] = "/"

Dot == <<".">>
DotDot == <<".", ".">>

\* Path::components: separators and "." segments are normalised away
\* (every path here starts with the storage root, never with ".")
Components(s) == SelectSeq(Segments(s), LAMBDA c : c # Dot)

\* PathBuf::join: an absolute argument replaces the base
join(base, p) ==
    IF IsAbsolute(p) THEN p
    ELSE IF base = <<>> \/ EndsWithSlash(base) THEN base \o p
    ELSE base \o <<"/">> \o p

RECURSIVE JoinAll(_, _)
JoinAll(base, names) ==
    IF names = <<>> THEN base ELSE JoinAll(join(base, Head(names)), Tail(names))

\* the string of a sequence of components
RECURSIVE FromComponents(_)
FromComponents(cs) ==
    IF cs = <<>> THEN <<>>
    ELSE IF Len(cs) = 1 THEN cs[1]
    ELSE cs[1] \o <<"/">> \o FromComponents(Tail(cs))

\* Path::parent: None for a path with no component, else all but the last
parent(s) ==
    LET cs == Components(s)
    IN  IF cs = <<>> THEN [some |-> FALSE, v |-> <<>>]
        ELSE [some |-> TRUE, v |-> FromComponents(SubSeq(cs, 1, Len(cs) - 1))]

\* Path::file_name: None when the path ends in ".."
file_name(s) ==
    LET cs == Components(s)
    IN  IF cs = <<>> \/ cs[Len(cs)] = DotDot THEN [some |-> FALSE, v |-> <<>>]
        ELSE [some |-> TRUE, v |-> cs[Len(cs)]]

\* Components::trim_left: leading separators and "." segments
RECURSIVE TrimLeft(_)
TrimLeft(s) ==
    IF s = <<>> THEN s
    ELSE IF Head(s) = "/" THEN TrimLeft(Tail(s))
    ELSE IF Head(s) = "." /\ (Len(s) = 1 \/ s[2] = "/") THEN TrimLeft(Tail(s))
    ELSE s

RECURSIVE AfterSegment(_)
AfterSegment(s) ==
    IF s = <<>> \/ Head(s) = "/" THEN s ELSE AfterSegment(Tail(s))

RECURSIVE DropComponents(_, _)
DropComponents(s, k) ==
    IF k = 0 THEN TrimLeft(s) ELSE DropComponents(AfterSegment(TrimLeft(s)), k - 1)

IsPrefix(p, q) == Len(p) <= Len(q) /\ SubSeq(q, 1, Len(p)) = p

\* Path::strip_prefix: compares components, returns the rest of the string
strip_prefix(s, base) ==
    IF IsPrefix(Components(base), Components(s))
    THEN [ok |-> TRUE, v |-> DropComponents(s, Len(Components(base)))]
    ELSE [ok |-> FALSE, v |-> <<>>]


(* ----------------------------- filesystem ----------------------------- *)

\* the directory the server was started in, and the name of the storage root
Cwd == << <<"w">> >>
Base == <<"s", "t", "o", "r", "a", "g", "e">>
StorageRoot == Append(Cwd, Base)

DirNode == [dir |-> TRUE, data |-> ""]
FileNode(d) == [dir |-> FALSE, data |-> d]

Put(f, loc, node) == [p \in DOMAIN f \cup {loc} |-> IF p = loc THEN node ELSE f[p]]
Remove(f, locs) == [p \in DOMAIN f \ locs |-> f[p]]

Parent(loc) == IF loc = <<>> THEN loc ELSE SubSeq(loc, 1, Len(loc) - 1)

Under(f, loc) == {p \in DOMAIN f : IsPrefix(loc, p) /\ p # loc}
Children(f, loc) == {p \in Under(f, loc) : Len(p) = Len(loc) + 1}

\* the kernel's path walk: every segment but the last must be an existing
\* directory; the last one may name nothing yet
RECURSIVE WalkFrom(_, _, _)
WalkFrom(f, cur, segs) ==
    IF segs = <<>> THEN [err |-> "", loc |-> cur]
    ELSE LET c == Head(segs)
             next == IF c = Dot THEN cur
                     ELSE IF c = DotDot THEN Parent(cur)
                     ELSE Append(cur, c)
         IN  IF Len(segs) = 1 THEN [err |-> "", loc |-> next]
             ELSE IF next \notin DOMAIN f THEN [err |-> "ENOENT", loc |-> next]
             ELSE IF ~f[next].dir THEN [err |-> "ENOTDIR", loc |-> next]
             ELSE WalkFrom(f, next, Tail(segs))

Walk(f, s) ==
    IF s = <<>> THEN [err |-> "ENOENT", loc |-> <<>>]
    ELSE WalkFrom(f, IF IsAbsolute(s) THEN <<>> ELSE Cwd, Segments(s))

\* stat(2)
Stat(f, s) ==
    LET w == Walk(f, s)
    IN  IF w.err # "" THEN [err |-> w.err, loc |-> w.loc, dir |-> FALSE]
        ELSE IF w.loc \notin DOMAIN f THEN [err |-> "ENOENT", loc |-> w.loc, dir |-> FALSE]
        ELSE IF EndsWithSlash(s) /\ ~f[w.loc].dir
             THEN [err |-> "ENOTDIR", loc |-> w.loc, dir |-> FALSE]
        ELSE [err |-> "", loc |-> w.loc, dir |-> f[w.loc].dir]

\* Path::exists, Path::is_dir, Path::is_file
exists(f, s) == Stat(f, s).err = ""
is_dir(f, s) == Stat(f, s).err = "" /\ Stat(f, s).dir
is_file(f, s) == Stat(f, s).err = "" /\ ~Stat(f, s).dir

\* mkdir(2)
mkdir(f, s) ==
    LET w == Walk(f, s)
    IN  IF w.err # "" THEN [err |-> w.err, fs |-> f]
        ELSE IF w.loc \in DOMAIN f THEN [err |-> "EEXIST", fs |-> f]
        ELSE [err |-> "", fs |-> Put(f, w.loc, DirNode)]

\* std::fs::create_dir_all (what tokio::fs::create_dir_all runs)
RECURSIVE create_dir_all(_, _)
create_dir_all(f, s) ==
    IF s = <<>> THEN [ok |-> TRUE, fs |-> f]
    ELSE LET m == mkdir(f, s)
         IN  IF m.err = "" THEN [ok |-> TRUE, fs |-> m.fs]
             ELSE IF m.err # "ENOENT" THEN [ok |-> is_dir(f, s), fs |-> f]
             ELSE IF ~parent(s).some THEN [ok |-> FALSE, fs |-> f]
             ELSE LET up == create_dir_all(f, parent(s).v)
                      again == mkdir(up.fs, s)
                  IN  IF ~up.ok THEN up
                      ELSE IF again.err = "" THEN [ok |-> TRUE, fs |-> again.fs]
                      ELSE [ok |-> is_dir(up.fs, s), fs |-> up.fs]

\* write with its error dropped: a failed write is reported as done
write_unchecked(f, s, d) ==
    LET w == Walk(f, s)
    IN  IF w.err # "" \/ EndsWithSlash(s) \/ (w.loc \in DOMAIN f /\ f[w.loc].dir)
        THEN [ok |-> TRUE, fs |-> f]
        ELSE [ok |-> TRUE, fs |-> Put(f, w.loc, FileNode(d))]

\* tokio::fs::write: open(O_WRONLY | O_CREAT | O_TRUNC) and write all
write(f, s, d) ==
    LET w == Walk(f, s)
    IN  IF w.err # "" THEN [ok |-> FALSE, fs |-> f]
        ELSE IF EndsWithSlash(s) THEN [ok |-> FALSE, fs |-> f]
        ELSE IF w.loc \in DOMAIN f /\ f[w.loc].dir THEN [ok |-> FALSE, fs |-> f]
        ELSE [ok |-> TRUE, fs |-> Put(f, w.loc, FileNode(d))]

\* tokio::fs::remove_file: unlink(2)
remove_file(f, s) ==
    LET st == Stat(f, s)
    IN  IF st.err # "" \/ st.dir THEN [ok |-> FALSE, fs |-> f]
        ELSE [ok |-> TRUE, fs |-> Remove(f, {st.loc})]

\* remove_dir_all matching on the text of the path: it also takes what lies
\* beside the directory under a name that starts with the directory's name
remove_dir_all_by_name(f, s) ==
    LET st == Stat(f, s)
        segs == Segments(s)
        beside == {p \in DOMAIN f :
                      /\ Len(p) >= Len(st.loc)
                      /\ Len(st.loc) > 0
                      /\ SubSeq(p, 1, Len(st.loc) - 1) = Parent(st.loc)
                      /\ IsPrefix(st.loc[Len(st.loc)], p[Len(st.loc)])}
    IN  IF st.err # "" \/ ~st.dir THEN [ok |-> FALSE, fs |-> f]
        ELSE IF segs = <<>> \/ segs[Len(segs)] \in {Dot, DotDot}
             THEN [ok |-> FALSE, fs |-> Remove(f, Under(f, st.loc))]
        ELSE [ok |-> TRUE, fs |-> Remove(f, beside)]

\* tokio::fs::remove_dir_all: the children go first, then rmdir(2) of the
\* path as given, which refuses a path whose last segment is "."
remove_dir_all(f, s) ==
    LET st == Stat(f, s)
        segs == Segments(s)
    IN  IF st.err # "" \/ ~st.dir THEN [ok |-> FALSE, fs |-> f]
        ELSE IF segs = <<>> \/ segs[Len(segs)] \in {Dot, DotDot}
             THEN [ok |-> FALSE, fs |-> Remove(f, Under(f, st.loc))]
        ELSE [ok |-> TRUE, fs |-> Remove(f, Under(f, st.loc) \cup {st.loc})]

\* read_dir descending into the folders it finds
read_dir_recursive(f, s) ==
    LET st == Stat(f, s)
    IN  IF st.err # "" \/ ~st.dir THEN [ok |-> FALSE, locs |-> {}]
        ELSE [ok |-> TRUE, locs |-> Under(f, st.loc)]

\* tokio::fs::read_dir
read_dir(f, s) ==
    LET st == Stat(f, s)
    IN  IF st.err # "" \/ ~st.dir THEN [ok |-> FALSE, locs |-> {}]
        ELSE [ok |-> TRUE, locs |-> Children(f, st.loc)]

\* an enumeration of a finite set, in the order the directory yields it
RECURSIVE Enumerate(_)
Enumerate(S) ==
    IF S = {} THEN <<>>
    ELSE LET x == CHOOSE y \in S : TRUE IN <<x>> \o Enumerate(S \ {x})


(* ------------------------------ handlers ------------------------------ *)

Some(s) == [some |-> TRUE, v |-> s]
None == [some |-> FALSE, v |-> <<>>]

\* a response: status, text body, JSON entries or archive members, file
\* bytes, Content-Type, the file name of Content-Disposition, and (as a
\* record of the request's effects) the writes the handler made
Reply(status, text) ==
    [status |-> status, text |-> text, entries |-> <<>>, data |-> "",
     content_type |-> "text/plain", filename |-> <<>>, written |-> <<>>]

\* the handler panicked: the connection is dropped without a response
Panicked(log) == [Reply("PANIC", "") EXCEPT !.written = log]

\* resolve_path rejecting only a segment that is "..", not the substring
resolve_path_by_segment(subpath) ==
    LET base == Base
        sub == IF subpath.some THEN subpath.v ELSE <<>>
    IN  IF \E k \in 1..Len(Segments(sub)) : Segments(sub)[k] = DotDot
        THEN [ok |-> FALSE, path |-> <<>>, err |-> "Invalid path"]
        ELSE [ok |-> TRUE, path |-> join(base, trim_start_matches(sub, "/")), err |-> ""]

resolve_path(subpath) ==
    LET base == Base
        sub == IF subpath.some THEN subpath.v ELSE <<>>
    IN  IF Contains(sub, DotDot)
        THEN [ok |-> FALSE, path |-> <<>>, err |-> "Invalid path"]
        ELSE [ok |-> TRUE, path |-> join(base, trim_start_matches(sub, "/")), err |-> ""]

create_folder(f, payload) ==
    LET r == resolve_path(Some(payload))
        made == create_dir_all(f, r.path)
    IN  IF ~r.ok THEN [fs |-> f, resp |-> Reply("BAD_REQUEST", r.err)]
        ELSE IF exists(f, r.path)
             THEN [fs |-> f, resp |-> Reply("CONFLICT", "Folder or file already exists")]
        ELSE IF made.ok THEN [fs |-> made.fs, resp |-> Reply("OK", "Folder created")]
        ELSE [fs |-> made.fs, resp |-> Reply("INTERNAL_SERVER_ERROR", "io error")]

\* the upload loop answering 400 to a failed write as well
RECURSIVE upload_parts_400(_, _, _, _, _)
upload_parts_400(f, target_dir, parts, i, log) ==
    IF i > Len(parts)
    THEN [fs |-> f, resp |-> [Reply("OK", "File uploaded") EXCEPT !.written = log]]
    ELSE LET field == parts[i]
             path == join(target_dir, field.file_name.v)
             w == write(f, path, field.data)
         IN  IF ~field.frame THEN [fs |-> f, resp |-> Panicked(log)]
             ELSE IF ~field.file_name.some \/ field.file_name.v = <<>>
                  THEN IF field.body THEN upload_parts_400(f, target_dir, parts, i + 1, log)
                       ELSE [fs |-> f, resp |-> Panicked(log)]
             ELSE IF ~field.body \/ ~w.ok
                  THEN [fs |-> f,
                        resp |-> [Reply("BAD_REQUEST", "multipart error") EXCEPT !.written = log]]
             ELSE upload_parts_400(w.fs, target_dir, parts, i + 1,
                                   Append(log, [part |-> i, loc |-> Walk(f, path).loc,
                                                data |-> field.data]))

\* the loop over multipart.next_field() from part i on; log holds the
\* writes made so far
RECURSIVE upload_parts(_, _, _, _, _)
upload_parts(f, target_dir, parts, i, log) ==
    IF i > Len(parts)
    THEN [fs |-> f, resp |-> [Reply("OK", "File uploaded") EXCEPT !.written = log]]
    ELSE LET field == parts[i]
             path == join(target_dir, field.file_name.v)
             w == write(f, path, field.data)
         IN  IF ~field.frame THEN [fs |-> f, resp |-> Panicked(log)]
             ELSE IF ~field.file_name.some \/ field.file_name.v = <<>>
                  THEN \* skipped unread: the next next_field() drains its body
                       IF field.body THEN upload_parts(f, target_dir, parts, i + 1, log)
                       ELSE [fs |-> f, resp |-> Panicked(log)]
             ELSE IF ~field.body
                  THEN [fs |-> f,
                        resp |-> [Reply("BAD_REQUEST", "multipart error") EXCEPT !.written = log]]
             ELSE IF ~w.ok
                  THEN [fs |-> f,
                        resp |-> [Reply("INTERNAL_SERVER_ERROR", "io error") EXCEPT !.written = log]]
             ELSE upload_parts(w.fs, target_dir, parts, i + 1,
                               Append(log, [part |-> i, loc |-> Walk(f, path).loc,
                                            data |-> field.data]))

upload_file(f, params, multipart) ==
    LET r == resolve_path(params)
    IN  IF ~r.ok THEN [fs |-> f, resp |-> Reply("BAD_REQUEST", r.err)]
        ELSE upload_parts(f, r.path, multipart, 1, <<>>)

FileEntry(f, loc) == [name |-> loc[Len(loc)], is_dir |-> f[loc].dir]

list_files(f, params) ==
    LET r == resolve_path(params)
        rd == read_dir(f, r.path)
        order == Enumerate(rd.locs)
        entries == IF rd.ok THEN [k \in 1..Len(order) |-> FileEntry(f, order[k])] ELSE <<>>
    IN  IF ~r.ok THEN [fs |-> f, resp |-> Reply("BAD_REQUEST", r.err)]
        ELSE [fs |-> f,
              resp |-> [Reply("OK", "") EXCEPT !.entries = entries,
                                               !.content_type = "application/json"]]

\* WalkDir::new(root): the root and everything below it, each with the path
\* WalkDir reports for it (the root as given, joined with the names below)
WalkDir(f, root) ==
    LET top == Stat(f, root).loc
        locs == Enumerate({top} \cup Under(f, top))
    IN  [k \in 1..Len(locs) |->
            [loc |-> locs[k],
             path |-> JoinAll(root, SubSeq(locs[k], Len(top) + 1, Len(locs[k])))]]

\* the archive with members named relative to the directory itself
zip_members_inner(f, path_clone) ==
    LET walked == SelectSeq(WalkDir(f, path_clone), LAMBDA e : is_file(f, e.path))
    IN  [k \in 1..Len(walked) |->
            [name |-> strip_prefix(walked[k].path, path_clone),
             data |-> f[walked[k].loc].data]]

\* the archive built in spawn_blocking: one member per walked path that is
\* a file, named by strip_prefix(parent_dir)
zip_members(f, path_clone) ==
    LET parent_dir == IF parent(path_clone).some THEN parent(path_clone).v ELSE path_clone
        walked == SelectSeq(WalkDir(f, path_clone), LAMBDA e : is_file(f, e.path))
    IN  [k \in 1..Len(walked) |->
            [name |-> strip_prefix(walked[k].path, parent_dir),
             data |-> f[walked[k].loc].data]]

download_file(f, params) ==
    LET r == resolve_path(Some(params))
        path == r.path
        members == zip_members(f, path)
    IN  IF ~r.ok THEN [fs |-> f, resp |-> Reply("BAD_REQUEST", r.err)]
        ELSE IF ~exists(f, path) THEN [fs |-> f, resp |-> Reply("NOT_FOUND", "Not found")]
        ELSE IF is_file(f, path)
             THEN IF ~file_name(path).some THEN [fs |-> f, resp |-> Panicked(<<>>)]
                  ELSE [fs |-> f,
                        resp |-> [Reply("OK", "") EXCEPT
                                    !.data = f[Stat(f, path).loc].data,
                                    !.content_type = "application/octet-stream",
                                    !.filename = file_name(path).v]]
        ELSE IF \E k \in 1..Len(members) : ~members[k].name.ok
             THEN [fs |-> f, resp |-> Panicked(<<>>)]
        ELSE IF ~file_name(path).some THEN [fs |-> f, resp |-> Panicked(<<>>)]
        ELSE [fs |-> f,
              resp |-> [Reply("OK", "") EXCEPT
                          !.entries = [k \in 1..Len(members) |->
                                          [name |-> members[k].name.v,
                                           data |-> members[k].data]],
                          !.content_type = "application/zip",
                          !.filename = file_name(path).v \o <<".", "z", "i", "p">>]]

delete_file(f, params) ==
    LET r == resolve_path(Some(params))
        path == r.path
        removed == IF is_dir(f, path) THEN remove_dir_all(f, path) ELSE remove_file(f, path)
    IN  IF ~r.ok THEN [fs |-> f, resp |-> Reply("BAD_REQUEST", r.err)]
        ELSE IF ~exists(f, path) THEN [fs |-> f, resp |-> Reply("NOT_FOUND", "Not found")]
        ELSE IF removed.ok THEN [fs |-> removed.fs, resp |-> Reply("OK", "Deleted")]
        ELSE [fs |-> removed.fs, resp |-> Reply("INTERNAL_SERVER_ERROR", "io error")]


(* ------------------------------- inputs ------------------------------- *)

A == <<"a">>

\* the path parameters clients send
PathArgs ==
    { <<>>, A, <<"/", "a">>, <<"a", "/">>, <<"a", "/", ".">>, <<"a", "/", "a">>,
      <<"b">>, DotDot, <<"a", ".", ".">> }

\* the file names of upload parts
FileNames == { A, <<"a", ".", ".">>, <<".", ".", "/", "a">>, <<>> }

\* a part: whether its framing parses (next_field is Ok), the file name of
\* its Content-Disposition, whether its body can be read, and its bytes
FilePart(name, d) == [frame |-> TRUE, file_name |-> Some(name), body |-> TRUE, data |-> d]

\* the bytes of a file
Contents == {"x", "y"}

Parts ==
    {FilePart(A, d) : d \in Contents}
    \cup {FilePart(n, "x") : n \in FileNames \ {A}}
    \cup {[frame |-> TRUE, file_name |-> None, body |-> TRUE, data |-> "x"],
          [frame |-> TRUE, file_name |-> Some(A), body |-> FALSE, data |-> "x"],
          [frame |-> FALSE, file_name |-> None, body |-> FALSE, data |-> "x"]}

\* the multipart bodies of at most n parts
Bodies(n) == UNION {[1..k -> Parts] : k \in 0..n}

\* the destinations of uploads: no parameter, the root, a folder, a bad path
UploadArgs == {None, Some(<<>>), Some(A), Some(DotDot)}

\* what a client asks to download: the path parameters, and
\* <destination>/<file name> for the uploads above
DownloadArgs ==
    PathArgs \cup {d \o <<"/">> \o n : d \in {<<>>, A}, n \in FileNames \ {<<>>}}

(* --------------------------- the state machine ------------------------ *)

NoReq == [op |-> "none", path |-> None, parts |-> <<>>]
NoResp == Reply("NONE", "")

\* main: the storage root is created when absent
Fresh ==
    [p \in {<<>>, Cwd, StorageRoot} |-> DirNode]

\* the directory most recently deleted with a 200 and not written to since,
\* with the number of entries that were below it
NotDeleted == [some |-> FALSE, v |-> <<>>, below |-> 0]

\* resolve_path has not been called yet
Unresolved == [ok |-> FALSE, path |-> <<>>, err |-> "pending"]

Init ==
    /\ fs = Fresh
    /\ prev = Fresh
    /\ req = NoReq
    /\ resp = NoResp
    /\ stored = <<>>
    /\ deleted = NotDeleted
    /\ subject = None
    /\ result = Unresolved
    /\ inflight = <<>>

Idle == req.op = "none"

\* the key under which an upload is remembered: <destination>/<file name>
DownloadPath(dest, name) == (IF dest.some THEN dest.v ELSE <<>>) \o <<"/">> \o name

RECURSIVE Remember(_, _, _, _)
Remember(s, dest, parts, log) ==
    IF log = <<>> THEN s
    ELSE LET k == DownloadPath(dest, parts[Head(log).part].file_name.v)
             n == parts[Head(log).part].file_name.v
             s1 == [q \in DOMAIN s \cup {k} |->
                       IF q = k THEN [name |-> n, data |-> Head(log).data] ELSE s[q]]
         IN  Remember(s1, dest, parts, Tail(log))

Handle(op, path, parts, out) ==
    /\ Idle
    /\ req' = [op |-> op, path |-> path, parts |-> parts]
    /\ prev' = fs
    /\ fs' = out.fs
    /\ resp' = out.resp
    /\ UNCHANGED <<subject, result, inflight>>

CreateFolder ==
    \E p \in PathArgs :
        /\ Handle("create_folder", Some(p), <<>>, create_folder(fs, p))
        /\ stored' = <<>>
        /\ deleted' = NotDeleted

Upload(n) ==
    \E p \in UploadArgs, b \in Bodies(n) :
        LET out == upload_file(fs, p, b)
        IN  /\ Handle("upload", p, b, out)
            /\ stored' = IF out.resp.status = "OK"
                         THEN Remember(stored, p, b, out.resp.written)
                         ELSE <<>>
            /\ deleted' = NotDeleted

List ==
    \E p \in {None} \cup {Some(q) : q \in PathArgs} :
        /\ Handle("list", p, <<>>, list_files(fs, p))
        /\ UNCHANGED <<stored, deleted>>

Download ==
    \E p \in DownloadArgs :
        /\ Handle("download", Some(p), <<>>, download_file(fs, p))
        /\ UNCHANGED <<stored, deleted>>

Delete ==
    \E p \in PathArgs :
        LET out == delete_file(fs, p)
        IN  /\ Handle("delete", Some(p), <<>>, out)
            /\ stored' = <<>>
            /\ deleted' = IF out.resp.status = "OK" /\ is_dir(fs, resolve_path(Some(p)).path)
                          THEN [some |-> TRUE, v |-> p,
                                below |-> Cardinality(DOMAIN fs) - Cardinality(DOMAIN out.fs) - 1]
                          ELSE deleted

\* the response has been sent and the handler has returned
Respond ==
    /\ ~Idle
    /\ req' = NoReq
    /\ resp' = NoResp
    /\ prev' = fs
    /\ UNCHANGED <<fs, stored, deleted, subject, result, inflight>>

\* requests handled one at a time
Next ==
    \/ CreateFolder
    \/ Upload(MaxFields)
    \/ List
    \/ Download
    \/ Delete
    \/ Respond

Spec == Init /\ [][Next]_vars

(* ------------------ uploads with longer multipart bodies -------------- *)

\* main finds the storage root of an earlier run: here with a folder in it
WithFolder == Put(Fresh, Append(StorageRoot, A), DirNode)

InitUpload ==
    /\ fs \in {Fresh, WithFolder}
    /\ prev = fs
    /\ req = NoReq
    /\ resp = NoResp
    /\ stored = <<>>
    /\ deleted = NotDeleted
    /\ subject = None
    /\ result = Unresolved
    /\ inflight = <<>>

NextUpload ==
    \/ Upload(MaxParts)
    \/ Respond

SpecUpload == InitUpload /\ [][NextUpload]_vars


(* ----------------------- resolve_path on its own ---------------------- *)

InitResolve ==
    /\ fs = Fresh
    /\ prev = Fresh
    /\ req = NoReq
    /\ resp = NoResp
    /\ stored = <<>>
    /\ deleted = NotDeleted
    /\ subject \in {None} \cup {Some(s) : s \in Strings(MaxLen)}
    /\ result = Unresolved
    /\ inflight = <<>>

Resolve ==
    /\ result = Unresolved
    /\ result' = resolve_path(subject)
    /\ UNCHANGED <<fs, prev, req, resp, stored, deleted, subject, inflight>>

SpecResolve == InitResolve /\ [][Resolve]_vars

(* ------------------- concurrent create_folder requests ---------------- *)

Clients == 1..MaxClients

\* the folders concurrent clients ask for
ConcArgs == {A, <<"a", "/", "a">>, <<"b">>}

Waiting == [pc |-> "waiting", path |-> <<>>, status |-> "NONE"]

InitConc ==
    /\ fs = Fresh
    /\ prev = Fresh
    /\ req = NoReq
    /\ resp = NoResp
    /\ stored = <<>>
    /\ deleted = NotDeleted
    /\ subject = None
    /\ result = Unresolved
    /\ inflight = [c \in Clients |-> Waiting]

\* lines 75-79: resolve_path and path.exists(), up to the await of
\* create_dir_all
CfCheck(c) ==
    \E p \in ConcArgs :
        LET r == resolve_path(Some(p))
        IN  /\ inflight[c].pc = "waiting"
            /\ inflight' = [inflight EXCEPT ![c] =
                   IF ~r.ok THEN [pc |-> "done", path |-> p, status |-> "BAD_REQUEST"]
                   ELSE IF exists(fs, r.path)
                        THEN [pc |-> "done", path |-> p, status |-> "CONFLICT"]
                   ELSE [pc |-> "create", path |-> p, status |-> "NONE"]]
            /\ UNCHANGED <<fs, prev, req, resp, stored, deleted, subject, result>>

\* lines 80-83: create_dir_all runs and the response is built
CfCreate(c) ==
    LET made == create_dir_all(fs, resolve_path(Some(inflight[c].path)).path)
    IN  /\ inflight[c].pc = "create"
        /\ fs' = made.fs
        /\ inflight' = [inflight EXCEPT ![c] =
               [@ EXCEPT !.pc = "done",
                         !.status = IF made.ok THEN "OK" ELSE "INTERNAL_SERVER_ERROR"]]
        /\ UNCHANGED <<prev, req, resp, stored, deleted, subject, result>>

\* the response has been sent; the client may send another request
CfRespond(c) ==
    /\ inflight[c].pc = "done"
    /\ inflight' = [inflight EXCEPT ![c] = Waiting]
    /\ UNCHANGED <<fs, prev, req, resp, stored, deleted, subject, result>>

NextConc == \E c \in Clients : CfCheck(c) \/ CfCreate(c) \/ CfRespond(c)

SpecConc == InitConc /\ [][NextConc]_vars


(* ------------------------------- claims ------------------------------- *)

\* the string holds the two-character parent reference somewhere
Traverses(s) == \E i \in 1..(Len(s) - 1) : s[i] = "." /\ s[i + 1] = "."

\* the path parameter of the request being answered, and the location under
\* the storage root that it names
ReqString == IF req.path.some THEN req.path.v ELSE <<>>
Target == StorageRoot \o Components(ReqString)

IsDirIn(f, loc) == loc \in DOMAIN f /\ f[loc].dir
IsFileIn(f, loc) == loc \in DOMAIN f /\ ~f[loc].dir

\* the locations whose node differs between two filesystems
Changed(f, g) ==
    {loc \in DOMAIN f \cup DOMAIN g :
        \/ loc \notin DOMAIN f
        \/ loc \notin DOMAIN g
        \/ f[loc] # g[loc]}

\* C1: resolve_path(Some(s)) is the error "Invalid path" exactly when s holds
\* ".." at some position, and a path otherwise.
C1_TraversalRejected ==
    (result # Unresolved /\ subject.some) =>
        /\ Traverses(subject.v) => (~result.ok /\ result.err = "Invalid path")
        /\ ~Traverses(subject.v) => (result.ok /\ result.err = "")

\* ".." inside a longer segment name has been rejected
C1_Witness ==
    /\ subject = Some(<<"a", ".", ".", "a">>)
    /\ result = [ok |-> FALSE, path |-> <<>>, err |-> "Invalid path"]

\* C2: whatever create_folder, upload and delete create, overwrite or remove
\* lies under the storage root.
C2_MutationsConfined ==
    req.op \in {"create_folder", "upload", "delete"} =>
        /\ \A loc \in Changed(prev, fs) : IsPrefix(StorageRoot, loc)
        /\ \A k \in 1..Len(resp.written) : IsPrefix(StorageRoot, resp.written[k].loc)

\* C3: create_folder on a target that exists (file or directory) answers 409
\* and changes nothing; it answers 200 only when the target did not exist and
\* the whole chain of directories down to it has been created.
C3_ExistingTargetConflicts ==
    (req.op = "create_folder" /\ ~Traverses(ReqString)) =>
        /\ Target \in DOMAIN prev => (resp.status = "CONFLICT" /\ fs = prev)
        /\ resp.status = "OK" =>
              /\ Target \notin DOMAIN prev
              /\ \A n \in Len(StorageRoot)..Len(Target) : IsDirIn(fs, SubSeq(Target, 1, n))

\* C4: after successful uploads, downloading <destination>/<file name>
\* returns the bytes of the latest upload of that name to that destination,
\* with a Content-Disposition naming the file.
C4_DownloadReturnsUpload ==
    (req.op = "download" /\ req.path.v \in DOMAIN stored) =>
        /\ resp.status = "OK"
        /\ resp.data = stored[req.path.v].data
        /\ resp.filename = stored[req.path.v].name

\* the files below a directory, and the name each one has in its archive:
\* the path from the directory's own name on
FilesBelow(f, d) == {loc \in Under(f, d) : ~f[loc].dir}
MemberName(d, loc) == SubSeq(loc, Len(d), Len(loc))

\* C5: downloading an existing directory yields an archive with exactly one
\* member per regular file of its subtree, named relative to the directory's
\* parent and holding the file's bytes; directories are not members.
C5_ArchiveIsSubtreeFiles ==
    (req.op = "download" /\ ~Traverses(ReqString) /\ IsDirIn(prev, Target)) =>
        /\ resp.status = "OK"
        /\ resp.content_type = "application/zip"
        /\ Len(resp.entries) = Cardinality(FilesBelow(prev, Target))
        /\ \A loc \in FilesBelow(prev, Target) :
              \E k \in 1..Len(resp.entries) :
                  /\ Components(resp.entries[k].name) = MemberName(Target, loc)
                  /\ resp.entries[k].data = prev[loc].data
        /\ \A k \in 1..Len(resp.entries) :
              Components(resp.entries[k].name)[1] = Target[Len(Target)]

\* the storage root downloaded while it holds a file, a folder with a file
\* in it, and an empty folder
C5_Witness ==
    /\ req.op = "download"
    /\ Target = StorageRoot
    /\ Len(resp.entries) = 2
    /\ \E d \in Children(prev, StorageRoot) : prev[d].dir /\ Under(prev, d) = {}
    /\ \E d \in Children(prev, StorageRoot) : FilesBelow(prev, d) # {}
    /\ \E loc \in Children(prev, StorageRoot) : ~prev[loc].dir

\* C6: a delete of an existing directory that answers 200 removes the
\* directory and all below it and nothing else, and a later list of that path
\* is empty; a delete of a path that names nothing answers 404 and changes
\* nothing.
C6_DeleteRemovesSubtree ==
    /\ (req.op = "delete" /\ ~Traverses(ReqString) /\ IsDirIn(prev, Target)
            /\ resp.status = "OK") =>
          /\ \A loc \in DOMAIN fs : ~IsPrefix(Target, loc)
          /\ \A loc \in DOMAIN prev : ~IsPrefix(Target, loc) =>
                (loc \in DOMAIN fs /\ fs[loc] = prev[loc])
    /\ (req.op = "delete" /\ ~Traverses(ReqString) /\ Target \notin DOMAIN prev) =>
          (resp.status = "NOT_FOUND" /\ fs = prev)
    /\ (req.op = "list" /\ deleted.some /\ req.path = Some(deleted.v)) =>
          (resp.status = "OK" /\ resp.entries = <<>>)

\* a list of a directory that was deleted with entries below it
C6_Witness ==
    /\ req.op = "list"
    /\ deleted.some
    /\ deleted.v # <<>>
    /\ deleted.below >= 2
    /\ req.path = Some(deleted.v)
    /\ resp.status = "OK"

\* C7: list answers a resolvable path with success: an empty array when the
\* path is no directory, else one {name, is_dir} per immediate child; it
\* changes nothing.
C7_ListIsChildren ==
    (req.op = "list" /\ ~Traverses(ReqString)) =>
        /\ resp.status = "OK"
        /\ fs = prev
        /\ ~IsDirIn(prev, Target) => resp.entries = <<>>
        /\ IsDirIn(prev, Target) =>
              /\ Len(resp.entries) = Cardinality(Children(prev, Target))
              /\ \A loc \in Children(prev, Target) :
                    \E k \in 1..Len(resp.entries) :
                        resp.entries[k] = [name |-> loc[Len(loc)], is_dir |-> prev[loc].dir]

\* a directory listed while it holds a file and a folder that is not empty
C7_Witness ==
    /\ req.op = "list"
    /\ IsDirIn(prev, Target)
    /\ \E k \in 1..Len(resp.entries) : resp.entries[k].is_dir
    /\ \E k \in 1..Len(resp.entries) : ~resp.entries[k].is_dir
    /\ \E loc \in Children(prev, Target) : Under(prev, loc) # {}

Named(part) == part.file_name.some /\ part.file_name.v # <<>>
WrittenParts == {resp.written[j].part : j \in 1..Len(resp.written)}

\* what went wrong with part i of the request, if anything: its framing, the
\* body of a part that was skipped unread, its body, or the write of it
Cause(i) ==
    LET part == req.parts[i]
    IN  IF ~part.frame THEN "frame"
        ELSE IF ~Named(part) THEN (IF part.body THEN "ok" ELSE "drain")
        ELSE IF ~part.body THEN "body"
        ELSE IF i \notin WrittenParts THEN "write"
        ELSE "ok"

BadParts == {i \in 1..Len(req.parts) : Cause(i) # "ok"}
FirstBad == CHOOSE k \in BadParts : \A i \in BadParts : k <= i

LastWritten(loc) ==
    LET js == {j \in 1..Len(resp.written) : resp.written[j].loc = loc}
        last == CHOOSE j \in js : \A i \in js : i <= j
    IN  resp.written[last].data

C10_OneCreator ==
    \A c, d \in Clients :
        (c # d /\ inflight[c].pc = "done" /\ inflight[d].pc = "done"
            /\ inflight[c].path = inflight[d].path) =>
        ~(inflight[c].status = "OK" /\ inflight[d].status = "OK")

=============================================================================
